---- MODULE Spec2Model ----
(***************************************************************************)
(* One-wire split protocol of ZMK: the peripheral transmitter              *)
(* (app/src/split/onewire/onewire_peripheral.c) and the central receiver   *)
(* (the second translation unit, with onewire_cb), two devices sharing one *)
(* digital line.  Time is counted in microseconds; the only thing that     *)
(* takes time is k_busy_wait.                                              *)
(***************************************************************************)
EXTENDS Integers, Sequences, FiniteSets, TLC

(* ---------------------------------------------------------------- *)
(* Program constants                                                 *)
(* ---------------------------------------------------------------- *)
ONE_PERIOD_US == 50

\* a HALF_PERIOD_US that rounds up
HalfPeriod_RoundUp(period) == (period + 1) \div 2

\* #define HALF_PERIOD_US (ONE_PERIOD_US / 2), for a period of any value
HalfPeriod(period) == period \div 2

HALF_PERIOD_US == HalfPeriod(ONE_PERIOD_US)

\* the argument of the first k_busy_wait of onewire_cb:
\* ONE_PERIOD_US + HALF_PERIOD_US
SampleOffset(period) == period + HalfPeriod(period)
FRAMING_SYMBOL == 85
POSITION_STATE_DATA_LEN == 16
\* sizeof(byte) for "u8_t byte": the bound of the loops of
\* onewire_send_byte and onewire_read_byte
SizeofByte == 1
\* sizeof(position_state)
SizeofPositionState == POSITION_STATE_DATA_LEN * 1
\* the negative errno values gpio_pin_get returns when the read fails
PinErrors == {-5}

(* ---------------------------------------------------------------- *)
(* Bounds of the model                                               *)
(* ---------------------------------------------------------------- *)
\* number of samples of one onewire_cb run for which gpio_pin_get fails
MaxReadErrors == 1
\* the largest value of ONE_PERIOD_US the timing derivation is computed for
MaxPeriod == 60
\* number of line samples of a frame given to onewire_cb on its own
FrameSamples == 3

\* positions the application reports (u8_t position); 200 is beyond the 128
\* positions of the bitmap
Positions == {0, 3, 8, 200}
\* positions set in the buffer that onewire_cb names "data"
DataPositions == {3, 10}
\* values a function that ends without a return statement may yield
RetValues == {0, -22}

(* ---------------------------------------------------------------- *)
(* Bit helpers                                                       *)
(* ---------------------------------------------------------------- *)
BIT(n) == 2 ^ n

\* (byte & BIT(j)) != 0, as 0 or 1
BitOf(byte, j) == (byte \div BIT(j)) % 2

\* a WRITE_BIT that assigns the mask instead of merging it into var
WRITE_BIT_Assign(var, bit, set) == IF set THEN BIT(bit) ELSE 0

\* WRITE_BIT(var, bit, set) of sys/util.h
WRITE_BIT(var, bit, set) ==
    IF set
      THEN (IF BitOf(var, bit) = 1 THEN var ELSE var + BIT(bit))
      ELSE (IF BitOf(var, bit) = 1 THEN var - BIT(bit) ELSE var)

RECURSIVE XorFrom(_, _, _)
XorFrom(a, b, j) ==
    IF j = 8 THEN 0
    ELSE ((BitOf(a, j) + BitOf(b, j)) % 2) * BIT(j) + XorFrom(a, b, j + 1)

\* a ^ b on u8_t
Xor(a, b) == XorFrom(a, b, 0)

RECURSIVE OrFrom(_, _, _)
OrFrom(a, b, j) ==
    IF j = 8 THEN 0
    ELSE (IF BitOf(a, j) + BitOf(b, j) > 0 THEN BIT(j) ELSE 0) + OrFrom(a, b, j + 1)

\* (u8_t)(a | b)
Or(a, b) == OrFrom(a, b, 0)

Indices == 0 .. (POSITION_STATE_DATA_LEN - 1)
ZeroBitmap == [i \in Indices |-> 0]

RECURSIVE SetBits(_, _)
SetBits(bm, S) ==
    IF S = {} THEN bm
    ELSE LET p == CHOOSE x \in S : TRUE
         IN SetBits([bm EXCEPT ![p \div 8] = WRITE_BIT(@, p % 8, TRUE)], S \ {p})

\* the contents the buffer "data" may have
DataSet == { SetBits(ZeroBitmap, S) : S \in SUBSET DataPositions }

VARIABLES
    \* peripheral device
    periph_state,      \* position_state of the peripheral
    periph_oob,        \* byte offsets beyond position_state that were written
    periph_ret,        \* what the call that is returning yields
    tx_pc, tx_i, tx_bit, tx_byte, tx_length, tx_timer,
    tx_log,            \* line values driven by the running call, in order
    tx_frames,         \* frames completed by the running call
    call,              \* the running call and the state it started from
    clock,             \* microseconds busy-waited by the running call
    \* the wire
    line,
    \* central device
    central_state,     \* position_state of the central
    irq_enabled, irq_pending,
    rx_pc, rx_depth, data_length, rx_i, rx_bit, rx_byte, rx_timer,
    changed_positions, events,
    rx_hist,           \* record of the running onewire_cb
    \* the timing macros evaluated for a configured period
    cfg_period, cfg_half, cfg_offset,
    \* one byte through onewire_send_byte and onewire_read_byte
    cd_pc, cd_b, cd_tx, cd_i, cd_wire, cd_rx,
    \* onewire_cb applied to two frames
    pr_in, pr_a, pr_b

periph_vars == <<periph_state, periph_oob, periph_ret, tx_pc, tx_i, tx_bit,
                 tx_byte, tx_length, tx_timer, tx_log, tx_frames, call, clock>>
wire_vars == <<line>>
central_vars == <<central_state, irq_enabled, irq_pending, rx_pc, rx_depth,
                  data_length, rx_i, rx_bit, rx_byte, rx_timer,
                  changed_positions, events, rx_hist>>
timing_vars == <<cfg_period, cfg_half, cfg_offset>>
codec_vars == <<cd_pc, cd_b, cd_tx, cd_i, cd_wire, cd_rx>>
pair_vars == <<pr_in, pr_a, pr_b>>
bench_vars == <<timing_vars, codec_vars, pair_vars>>
vars == <<periph_vars, wire_vars, central_vars, bench_vars>>

\* decodes: the runs of onewire_cb that started while the call was running
NoCall == [position |-> 0, set |-> FALSE, made |-> FALSE,
           before |-> ZeroBitmap, oob_before |-> {}, decodes |-> 0]
\* samples: the values gpio_pin_get returned; at: for each sample, which of
\* the line values of the running call was on the line and for how long it
\* had been; bytes: the values onewire_read_byte returned
NoHist == [old |-> ZeroBitmap, errs |-> 0, toolong |-> FALSE,
           samples |-> <<>>, data |-> ZeroBitmap, before_diff |-> ZeroBitmap,
           edges |-> 0, at |-> <<>>, bytes |-> <<>>]

NoResult == [events |-> <<>>, state |-> ZeroBitmap, done |-> FALSE]
NoFrame == [k \in 1 .. FrameSamples |-> 1]

\* the timing macros as the build evaluates them
TimingBuilt ==
    /\ cfg_period = ONE_PERIOD_US
    /\ cfg_half = HALF_PERIOD_US
    /\ cfg_offset = SampleOffset(ONE_PERIOD_US)

CodecOff ==
    /\ cd_pc = "off" /\ cd_b = 0 /\ cd_tx = 0 /\ cd_i = 0
    /\ cd_wire = <<>> /\ cd_rx = 0

PairOff ==
    /\ pr_in = [old |-> ZeroBitmap, data |-> ZeroBitmap,
                a |-> NoFrame, b |-> NoFrame]
    /\ pr_a = NoResult
    /\ pr_b = NoResult

\* static storage is zero-initialised; onewire_init leaves the line high and
\* the central's falling-edge interrupt armed
DevicesInit ==
    /\ periph_state = ZeroBitmap
    /\ periph_oob = {}
    /\ periph_ret = 0
    /\ tx_pc = "idle" /\ tx_i = 0 /\ tx_bit = 0 /\ tx_byte = 0
    /\ tx_length = 0 /\ tx_timer = 0
    /\ tx_log = <<>>
    /\ tx_frames = 0
    /\ call = NoCall
    /\ clock = 0
    /\ line = 1
    /\ central_state = ZeroBitmap
    /\ irq_enabled = TRUE
    /\ irq_pending = FALSE
    /\ rx_pc = "idle" /\ rx_depth = 0 /\ data_length = 0
    /\ rx_i = 0 /\ rx_bit = 0 /\ rx_byte = 0 /\ rx_timer = 0
    /\ changed_positions = ZeroBitmap
    /\ events = <<>>
    /\ rx_hist = NoHist

Init ==
    /\ DevicesInit
    /\ TimingBuilt
    /\ CodecOff
    /\ PairOff

(* ---------------------------------------------------------------- *)
(* The wire                                                          *)
(* ---------------------------------------------------------------- *)
\* GPIO_INT_EDGE_TO_INACTIVE: a change of the line from 1 to 0 raises the
\* interrupt when it is enabled; an edge while it is disabled is lost
FallingEdge(v) == line = 1 /\ v = 0

\* gpio_pin_set(onewire_dev, ONEWIRE_GPIO_PIN, v) as the central sees it
Drive(v) ==
    /\ line' = v
    /\ irq_pending' = (irq_pending \/ (FallingEdge(v) /\ irq_enabled))
    /\ rx_hist' = IF FallingEdge(v) /\ rx_pc # "idle"
                    THEN [rx_hist EXCEPT !.edges = 1]
                    ELSE rx_hist

(* ---------------------------------------------------------------- *)
(* Peripheral                                                        *)
(* ---------------------------------------------------------------- *)
\* the first statement of position_pressed/released:
\* WRITE_BIT(position_state[position/8], position % 8, set).  There is no
\* range check: an index of 16 or more addresses the bytes after the array.
WritePosition(position, set) ==
    IF position \div 8 < POSITION_STATE_DATA_LEN
      THEN /\ periph_state' = [periph_state EXCEPT
                  ![position \div 8] = WRITE_BIT(@, position % 8, set)]
           /\ UNCHANGED periph_oob
      ELSE /\ periph_oob' = periph_oob \cup {position \div 8}
           /\ UNCHANGED periph_state

\* entry of send_onewire_data(position_state, sizeof(position_state)) and of
\* onewire_start_transmission(length): the first byte to send is the framing
\* symbol
BeginSend(length) ==
    /\ tx_pc' = "framing"
    /\ tx_byte' = FRAMING_SYMBOL
    /\ tx_bit' = 0
    /\ tx_i' = 0
    /\ tx_length' = length
    /\ tx_timer' = 0

\* a position_pressed/released that sends only when the bit changes
PositionCall_SkipUnchanged(position, set) ==
    /\ UNCHANGED bench_vars
    /\ tx_pc = "idle"
    /\ WritePosition(position, set)
    /\ IF /\ position \div 8 < POSITION_STATE_DATA_LEN
          /\ (BitOf(periph_state[position \div 8], position % 8) = 1) = set
         THEN /\ tx_pc' = "return"
              /\ UNCHANGED <<tx_byte, tx_bit, tx_i, tx_length, tx_timer>>
         ELSE BeginSend(SizeofPositionState)
    /\ call' = [position |-> position, set |-> set, made |-> TRUE,
                before |-> periph_state, oob_before |-> periph_oob,
                decodes |-> 0]
    /\ tx_log' = <<>>
    /\ tx_frames' = 0
    /\ clock' = 0
    /\ UNCHANGED <<periph_ret, wire_vars, central_vars>>

PositionCall(position, set) ==
    /\ UNCHANGED bench_vars
    /\ tx_pc = "idle"
    /\ WritePosition(position, set)
    /\ BeginSend(SizeofPositionState)
    /\ call' = [position |-> position, set |-> set, made |-> TRUE,
                before |-> periph_state, oob_before |-> periph_oob,
                decodes |-> 0]
    /\ tx_log' = <<>>
    /\ tx_frames' = 0
    /\ clock' = 0
    /\ UNCHANGED <<periph_ret, wire_vars, central_vars>>

zmk_split_onewire_position_pressed(position) == PositionCall(position, TRUE)

zmk_split_onewire_position_released(position) == PositionCall(position, FALSE)

\* the byte that follows the one just sent, in the order of
\* onewire_start_transmission and of the loop of send_onewire_data
TxNext ==
    CASE tx_pc = "framing" -> [pc |-> "length", i |-> 0, byte |-> tx_length % 256]
      [] tx_pc = "length" ->
            IF 0 < tx_length
              THEN [pc |-> "data", i |-> 0, byte |-> periph_state[0]]
              ELSE [pc |-> "end", i |-> 0, byte |-> 0]
      [] OTHER ->
            IF tx_i + 1 < tx_length
              THEN [pc |-> "data", i |-> tx_i + 1, byte |-> periph_state[tx_i + 1]]
              ELSE [pc |-> "end", i |-> tx_i + 1, byte |-> 0]

\* (byte & 0x01), the value onewire_send_byte drives
LowBit(byte) == byte % 2

\* byte >>= 1
ShiftRight(byte) == byte \div 2

\* ++i; i < sizeof(byte): another iteration follows iteration i
LoopGoesOn(i) == i + 1 < SizeofByte

\* one iteration of the loop of onewire_send_byte: drive the line to the low
\* bit of byte, shift, wait one period
onewire_send_byte ==
    /\ UNCHANGED bench_vars
    /\ tx_pc \in {"framing", "length", "data"}
    /\ tx_timer = 0
    /\ Drive(LowBit(tx_byte))
    /\ tx_log' = Append(tx_log, LowBit(tx_byte))
    /\ tx_timer' = ONE_PERIOD_US
    /\ IF LoopGoesOn(tx_bit)
         THEN /\ tx_bit' = tx_bit + 1
              /\ tx_byte' = ShiftRight(tx_byte)
              /\ UNCHANGED <<tx_pc, tx_i>>
         ELSE /\ tx_bit' = 0
              /\ tx_pc' = TxNext.pc
              /\ tx_i' = TxNext.i
              /\ tx_byte' = TxNext.byte
    /\ UNCHANGED <<periph_state, periph_oob, periph_ret, tx_length, tx_frames,
                   call, clock>>
    /\ UNCHANGED <<central_state, irq_enabled, rx_pc, rx_depth, data_length,
                   rx_i, rx_bit, rx_byte, rx_timer, changed_positions, events>>

\* onewire_end_transmission; control is then at the closing brace of
\* position_pressed/released, which has no return statement
onewire_end_transmission ==
    /\ UNCHANGED bench_vars
    /\ tx_pc = "end"
    /\ tx_timer = 0
    /\ Drive(1)
    /\ tx_pc' = "return"
    /\ tx_frames' = tx_frames + 1
    /\ periph_ret' \in RetValues
    /\ UNCHANGED <<periph_state, periph_oob, tx_i, tx_bit, tx_byte, tx_length,
                   tx_timer, tx_log, call, clock>>
    /\ UNCHANGED <<central_state, irq_enabled, rx_pc, rx_depth, data_length,
                   rx_i, rx_bit, rx_byte, rx_timer, changed_positions, events>>

\* position_pressed/released returns to its caller; the call's locals and
\* its record end with it
PositionReturn ==
    /\ UNCHANGED bench_vars
    /\ tx_pc = "return"
    /\ tx_pc' = "idle"
    /\ tx_i' = 0 /\ tx_bit' = 0 /\ tx_byte' = 0 /\ tx_length' = 0
    /\ tx_timer' = 0
    /\ tx_log' = <<>>
    /\ tx_frames' = 0
    /\ call' = NoCall
    /\ clock' = 0
    /\ periph_ret' = 0
    /\ UNCHANGED <<periph_state, periph_oob, wire_vars, central_vars>>

(* ---------------------------------------------------------------- *)
(* Central                                                           *)
(* ---------------------------------------------------------------- *)
\* an onewire_cb that leaves the falling-edge interrupt enabled
onewire_cb_entry_NoDisable ==
    /\ UNCHANGED bench_vars
    /\ irq_pending
    /\ rx_depth < 2
    /\ irq_pending' = FALSE
    /\ irq_enabled' = irq_enabled
    /\ rx_depth' = rx_depth + 1
    /\ rx_timer' = SampleOffset(ONE_PERIOD_US)
    /\ rx_pc' = "length"
    /\ rx_byte' = 0
    /\ rx_bit' = 0
    /\ rx_i' = 0
    /\ events' = <<>>
    /\ rx_hist' = [NoHist EXCEPT !.old = central_state]
    /\ call' = IF call.made THEN [call EXCEPT !.decodes = @ + 1] ELSE call
    /\ UNCHANGED <<periph_state, periph_oob, periph_ret, tx_pc, tx_i, tx_bit,
                   tx_byte, tx_length, tx_timer, tx_log, tx_frames, clock>>
    /\ UNCHANGED <<wire_vars, central_state, data_length, changed_positions>>

\* the interrupt calls onewire_cb: it disables the interrupt and waits one
\* and a half periods
onewire_cb_entry ==
    /\ UNCHANGED bench_vars
    /\ irq_pending
    /\ rx_depth < 2
    /\ irq_pending' = FALSE
    /\ irq_enabled' = FALSE
    /\ rx_depth' = rx_depth + 1
    /\ rx_timer' = SampleOffset(ONE_PERIOD_US)
    /\ rx_pc' = "length"
    /\ rx_byte' = 0
    /\ rx_bit' = 0
    /\ rx_i' = 0
    /\ events' = <<>>
    /\ rx_hist' = [NoHist EXCEPT !.old = central_state]
    /\ call' = IF call.made THEN [call EXCEPT !.decodes = @ + 1] ELSE call
    /\ UNCHANGED <<periph_state, periph_oob, periph_ret, tx_pc, tx_i, tx_bit,
                   tx_byte, tx_length, tx_timer, tx_log, tx_frames, clock>>
    /\ UNCHANGED <<wire_vars, central_state, data_length, changed_positions>>

\* what gpio_pin_get can return now: the level of the line or an error
PinValues ==
    {line} \cup (IF rx_hist.errs < MaxReadErrors THEN PinErrors ELSE {})

\* an onewire_read_byte that takes a failed read for a 1
ReadBit_ErrorAsOne(byte, pin_value, i) ==
    IF pin_value >= 0
      THEN Or(byte, (pin_value * BIT(i)) % 256)
      ELSE Or(byte, BIT(i))

\* if (pin_value >= 0) byte |= pin_value << i; else log(...)
ReadBit(byte, pin_value, i) ==
    IF pin_value >= 0
      THEN Or(byte, (pin_value * BIT(i)) % 256)
      ELSE byte

\* a device is inside k_busy_wait, or about to act at this instant
TxWaiting == tx_pc \in {"framing", "length", "data", "end"}
RxWaiting == rx_pc # "idle"

\* the line value of the running call that is on the line now (its number in
\* the order they were driven) and the time since it was driven
OnLine ==
    IF TxWaiting
      THEN [bit |-> Len(tx_log), phase |-> ONE_PERIOD_US - tx_timer]
      ELSE [bit |-> 0, phase |-> 0]

\* one iteration of the loop of onewire_read_byte: sample the line, or the
\* bit if the read succeeded, wait one period
onewire_read_byte ==
    /\ UNCHANGED bench_vars
    /\ rx_pc \in {"length", "payload"}
    /\ rx_timer = 0
    /\ \E pin_value \in PinValues :
          /\ rx_byte' = ReadBit(rx_byte, pin_value, rx_bit)
          /\ rx_hist' = [rx_hist EXCEPT
                  !.samples = Append(@, pin_value),
                  !.at = Append(@, OnLine),
                  !.errs = IF pin_value < 0 THEN @ + 1 ELSE @]
    /\ rx_timer' = ONE_PERIOD_US
    /\ IF LoopGoesOn(rx_bit)
         THEN /\ rx_bit' = rx_bit + 1
              /\ UNCHANGED rx_pc
         ELSE /\ rx_bit' = 0
              /\ rx_pc' = IF rx_pc = "length" THEN "got_length" ELSE "got_payload"
    /\ UNCHANGED <<periph_vars, wire_vars, central_state, irq_enabled,
                   irq_pending, rx_depth, data_length, rx_i,
                   changed_positions, events>>

\* if (data_length < sizeof(position_state))
LengthAccepted(length) == length < SizeofPositionState

\* u8_t data_length = onewire_read_byte(); and the test of
\* data_length < sizeof(position_state); the else branch only logs
onewire_cb_length ==
    /\ UNCHANGED bench_vars
    /\ rx_pc = "got_length"
    /\ rx_timer = 0
    /\ data_length' = rx_byte
    /\ rx_byte' = 0
    /\ rx_i' = 0
    /\ IF LengthAccepted(rx_byte)
         THEN /\ rx_pc' = IF 0 < rx_byte THEN "payload" ELSE "diff"
              /\ rx_hist' = [rx_hist EXCEPT !.bytes = Append(@, rx_byte)]
         ELSE /\ rx_pc' = "diff"
              /\ rx_hist' = [rx_hist EXCEPT !.bytes = Append(@, rx_byte),
                                            !.toolong = TRUE]
    /\ UNCHANGED <<periph_vars, wire_vars, central_state, irq_enabled,
                   irq_pending, rx_depth, rx_bit, rx_timer,
                   changed_positions, events>>

\* position_state[i] = onewire_read_byte(); i++
onewire_cb_payload ==
    /\ UNCHANGED bench_vars
    /\ rx_pc = "got_payload"
    /\ rx_timer = 0
    /\ central_state' = [central_state EXCEPT ![rx_i] = rx_byte]
    /\ rx_byte' = 0
    /\ rx_i' = rx_i + 1
    /\ rx_pc' = IF rx_i + 1 < data_length THEN "payload" ELSE "diff"
    /\ rx_hist' = [rx_hist EXCEPT !.bytes = Append(@, rx_byte)]
    /\ UNCHANGED <<periph_vars, wire_vars, irq_enabled, irq_pending, rx_depth,
                   data_length, rx_bit, rx_timer, changed_positions, events>>

\* changed_positions[i] = data[i] ^ position_state[i] for all i
ChangedPositions(data, state) == [i \in Indices |-> Xor(data[i], state[i])]

\* the first loop after the branch.  "data" is declared nowhere in the
\* translation unit and nothing in onewire_cb writes it: its contents are
\* not determined by the frame
onewire_cb_diff ==
    /\ UNCHANGED bench_vars
    /\ rx_pc = "diff"
    /\ rx_timer = 0
    /\ \E data \in DataSet :
          /\ changed_positions' = ChangedPositions(data, central_state)
          /\ central_state' = data
          /\ rx_hist' = [rx_hist EXCEPT !.data = data,
                                        !.before_diff = central_state]
    /\ rx_pc' = "emit"
    /\ UNCHANGED <<periph_vars, wire_vars, irq_enabled, irq_pending, rx_depth,
                   data_length, rx_i, rx_bit, rx_byte, rx_timer, events>>

\* the pairs (i, j) in the order the nested loops visit them, as i * 8 + j
LoopOrder == [k \in 1 .. (POSITION_STATE_DATA_LEN * 8) |-> k - 1]

\* if (changed_positions[i] & BIT(j))
IsChanged(changed, position) == BitOf(changed[position \div 8], position % 8) = 1

\* the events of the nested loops over i and j, in the order they are raised:
\* position = i * 8 + j, state = position_state[i] & BIT(j)
RaisedEvents(changed, state) ==
    LET hits == SelectSeq(LoopOrder, LAMBDA position : IsChanged(changed, position))
    IN [n \in 1 .. Len(hits) |->
          [position |-> hits[n],
           state |-> (BitOf(state[hits[n] \div 8], hits[n] % 8) = 1)]]

onewire_cb_emit ==
    /\ UNCHANGED bench_vars
    /\ rx_pc = "emit"
    /\ rx_timer = 0
    /\ events' = RaisedEvents(changed_positions, central_state)
    /\ rx_pc' = "rearm"
    /\ UNCHANGED <<periph_vars, wire_vars, central_state, irq_enabled,
                   irq_pending, rx_depth, data_length, rx_i, rx_bit, rx_byte,
                   rx_timer, changed_positions, rx_hist>>

\* an onewire_cb that returns without enabling the interrupt again
onewire_cb_rearm_Forget ==
    /\ UNCHANGED bench_vars
    /\ rx_pc = "rearm"
    /\ rx_timer = 0
    /\ irq_enabled' = FALSE
    /\ rx_pc' = "idle"
    /\ rx_depth' = rx_depth - 1
    /\ data_length' = 0 /\ rx_i' = 0 /\ rx_bit' = 0 /\ rx_byte' = 0
    /\ changed_positions' = ZeroBitmap
    /\ events' = <<>>
    /\ rx_hist' = NoHist
    /\ UNCHANGED <<periph_vars, wire_vars, central_state, irq_pending,
                   rx_timer>>

\* the last statement of onewire_cb enables the falling-edge interrupt again
onewire_cb_rearm ==
    /\ UNCHANGED bench_vars
    /\ rx_pc = "rearm"
    /\ rx_timer = 0
    /\ irq_enabled' = TRUE
    /\ rx_pc' = "idle"
    /\ rx_depth' = rx_depth - 1
    /\ data_length' = 0 /\ rx_i' = 0 /\ rx_bit' = 0 /\ rx_byte' = 0
    /\ changed_positions' = ZeroBitmap
    /\ events' = <<>>
    /\ rx_hist' = NoHist
    /\ UNCHANGED <<periph_vars, wire_vars, central_state, irq_pending,
                   rx_timer>>

(* ---------------------------------------------------------------- *)
(* Time                                                              *)
(* ---------------------------------------------------------------- *)
Min(a, b) == IF a < b THEN a ELSE b

\* k_busy_wait: time passes until the next wait of a device ends; an
\* interrupt that is pending is served before any time passes
Tick ==
    /\ UNCHANGED bench_vars
    /\ ~irq_pending
    /\ tx_pc # "return"
    /\ TxWaiting \/ RxWaiting
    /\ TxWaiting => tx_timer > 0
    /\ RxWaiting => rx_timer > 0
    /\ LET d == IF ~TxWaiting THEN rx_timer
                ELSE IF ~RxWaiting THEN tx_timer
                ELSE Min(tx_timer, rx_timer)
       IN /\ tx_timer' = IF TxWaiting THEN tx_timer - d ELSE 0
          /\ rx_timer' = IF RxWaiting THEN rx_timer - d ELSE 0
          /\ clock' = IF TxWaiting THEN clock + d ELSE clock
    /\ UNCHANGED <<periph_state, periph_oob, periph_ret, tx_pc, tx_i, tx_bit,
                   tx_byte, tx_length, tx_log, tx_frames, call>>
    /\ UNCHANGED <<wire_vars, central_state, irq_enabled, irq_pending, rx_pc,
                   rx_depth, data_length, rx_i, rx_bit, rx_byte,
                   changed_positions, events, rx_hist>>

Pressed == \E position \in Positions : zmk_split_onewire_position_pressed(position)
Released == \E position \in Positions : zmk_split_onewire_position_released(position)

Next ==
    \/ Pressed
    \/ Released
    \/ onewire_send_byte
    \/ onewire_end_transmission
    \/ PositionReturn
    \/ onewire_cb_entry
    \/ onewire_read_byte
    \/ onewire_cb_length
    \/ onewire_cb_payload
    \/ onewire_cb_diff
    \/ onewire_cb_emit
    \/ onewire_cb_rearm
    \/ Tick

Spec == Init /\ [][Next]_vars

TypeOK ==
    /\ periph_state \in [Indices -> 0 .. 255]
    /\ central_state \in [Indices -> 0 .. 255]
    /\ line \in {0, 1}
    /\ tx_timer \in 0 .. ONE_PERIOD_US
    /\ rx_timer \in 0 .. (ONE_PERIOD_US + HALF_PERIOD_US)

\* both processors run and every k_busy_wait ends; the application is free
\* to report positions or not
FairSpec ==
    /\ Spec
    /\ WF_vars(Tick)
    /\ WF_vars(onewire_send_byte)
    /\ WF_vars(onewire_end_transmission)
    /\ WF_vars(PositionReturn)
    /\ WF_vars(onewire_cb_entry)
    /\ WF_vars(onewire_read_byte)
    /\ WF_vars(onewire_cb_length)
    /\ WF_vars(onewire_cb_payload)
    /\ WF_vars(onewire_cb_diff)
    /\ WF_vars(onewire_cb_emit)
    /\ WF_vars(onewire_cb_rearm)

(* ---------------------------------------------------------------- *)
(* The timing macros for a configured period                          *)
(* ---------------------------------------------------------------- *)
Devices == <<periph_vars, wire_vars, central_vars>>

TimingInit ==
    /\ DevicesInit
    /\ CodecOff
    /\ PairOff
    /\ cfg_period \in 1 .. MaxPeriod
    /\ cfg_half = -1
    /\ cfg_offset = -1

\* #define HALF_PERIOD_US (ONE_PERIOD_US / 2)
timing_half ==
    /\ cfg_half = -1
    /\ cfg_half' = HalfPeriod(cfg_period)
    /\ UNCHANGED <<cfg_period, cfg_offset, codec_vars, pair_vars, Devices>>

\* k_busy_wait(ONE_PERIOD_US + HALF_PERIOD_US)
timing_offset ==
    /\ cfg_half # -1
    /\ cfg_offset = -1
    /\ cfg_offset' = SampleOffset(cfg_period)
    /\ UNCHANGED <<cfg_period, cfg_half, codec_vars, pair_vars, Devices>>

TimingNext ==
    \/ timing_half
    \/ timing_offset

TimingSpec == TimingInit /\ [][TimingNext]_vars

(* ---------------------------------------------------------------- *)
(* One byte through onewire_send_byte and onewire_read_byte           *)
(* ---------------------------------------------------------------- *)
CodecInit ==
    /\ DevicesInit
    /\ TimingBuilt
    /\ PairOff
    /\ cd_pc = "send"
    /\ cd_b \in 0 .. 255
    /\ cd_tx = cd_b
    /\ cd_i = 0
    /\ cd_wire = <<>>
    /\ cd_rx = 0

\* one iteration of the loop of onewire_send_byte(cd_b); cd_wire collects
\* the values it drives
codec_send ==
    /\ cd_pc = "send"
    /\ cd_wire' = Append(cd_wire, LowBit(cd_tx))
    /\ cd_tx' = ShiftRight(cd_tx)
    /\ IF LoopGoesOn(cd_i)
         THEN cd_i' = cd_i + 1 /\ UNCHANGED cd_pc
         ELSE cd_i' = 0 /\ cd_pc' = "read"
    /\ UNCHANGED <<cd_b, cd_rx, timing_vars, pair_vars, Devices>>

\* one iteration of the loop of onewire_read_byte, sampling the values of
\* cd_wire in the order they were driven
codec_read ==
    /\ cd_pc = "read"
    /\ cd_rx' = ReadBit(cd_rx, cd_wire[cd_i + 1], cd_i)
    /\ IF LoopGoesOn(cd_i)
         THEN cd_i' = cd_i + 1 /\ UNCHANGED cd_pc
         ELSE cd_i' = 0 /\ cd_pc' = "done"
    /\ UNCHANGED <<cd_b, cd_tx, cd_wire, timing_vars, pair_vars, Devices>>

CodecNext ==
    \/ codec_send
    \/ codec_read

CodecSpec == CodecInit /\ [][CodecNext]_vars

(* ---------------------------------------------------------------- *)
(* onewire_cb as a function of what it reads                          *)
(* ---------------------------------------------------------------- *)
\* the n-th value gpio_pin_get returns; the line is high after the frame
SampleAt(samples, n) == IF n <= Len(samples) THEN samples[n] ELSE 1

RECURSIVE ReadByteFrom(_, _, _, _)
ReadByteFrom(samples, first, i, byte) ==
    IF i = SizeofByte THEN byte
    ELSE ReadByteFrom(samples, first, i + 1,
                      ReadBit(byte, SampleAt(samples, first + i), i))

\* what the n-th call of onewire_read_byte in onewire_cb returns
ReadByteAt(samples, n) == ReadByteFrom(samples, (n - 1) * SizeofByte + 1, 0, 0)

\* the events onewire_cb raises and the bitmap it leaves, from the bitmap it
\* starts with, the values it samples and the contents of "data"
CbResult(old, samples, data) ==
    LET length == ReadByteAt(samples, 1)
        state == IF LengthAccepted(length)
                   THEN [i \in Indices |->
                           IF i < length THEN ReadByteAt(samples, 2 + i)
                                         ELSE old[i]]
                   ELSE old
    IN [events |-> RaisedEvents(ChangedPositions(data, state), data),
        state |-> data,
        done |-> TRUE]

\* the stepwise onewire_cb and CbResult agree
CbResultAgrees ==
    rx_pc = "rearm" =>
        CbResult(rx_hist.old, rx_hist.samples, rx_hist.data)
            = [events |-> events, state |-> central_state, done |-> TRUE]

Frames == [1 .. FrameSamples -> {0, 1}]

PairInit ==
    /\ DevicesInit
    /\ TimingBuilt
    /\ CodecOff
    /\ pr_in \in [old : DataSet, data : DataSet, a : Frames, b : Frames]
    /\ pr_a = NoResult
    /\ pr_b = NoResult

\* onewire_cb receives frame a
pair_run_a ==
    /\ ~pr_a.done
    /\ pr_a' = CbResult(pr_in.old, pr_in.a, pr_in.data)
    /\ UNCHANGED <<pr_in, pr_b, timing_vars, codec_vars, Devices>>

\* onewire_cb receives frame b, from the same stored bitmap
pair_run_b ==
    /\ ~pr_b.done
    /\ pr_b' = CbResult(pr_in.old, pr_in.b, pr_in.data)
    /\ UNCHANGED <<pr_in, pr_a, timing_vars, codec_vars, Devices>>

PairNext ==
    \/ pair_run_a
    \/ pair_run_b

PairSpec == PairInit /\ [][PairNext]_vars

(* ---------------------------------------------------------------- *)
(* Properties                                                        *)
(* ---------------------------------------------------------------- *)
AllPositions == 0 .. (POSITION_STATE_DATA_LEN * 8 - 1)
PositionBit(bm, p) == BitOf(bm[p \div 8], p % 8)
InRange(p) == p < POSITION_STATE_DATA_LEN * 8

\* C1 (round-trip framing): when a call of position_pressed/released has put
\* its frame on the line and returns, the central has finished decoding and
\* its bitmap equals the peripheral's bitmap.
C1_RoundTrip ==
    tx_pc = "return" => (rx_pc = "idle" /\ central_state = periph_state)

\* ev is the list of changes from old to new: one entry per position whose
\* bit differs, with the bit of new, in strictly ascending position order
IsDiffOf(ev, old, new) ==
    /\ \A k \in 1 .. Len(ev) :
          /\ ev[k].position \in AllPositions
          /\ PositionBit(old, ev[k].position) # PositionBit(new, ev[k].position)
          /\ ev[k].state = (PositionBit(new, ev[k].position) = 1)
    /\ \A k \in 1 .. (Len(ev) - 1) : ev[k].position < ev[k + 1].position
    /\ \A p \in AllPositions :
          PositionBit(old, p) # PositionBit(new, p)
             => \E k \in 1 .. Len(ev) : ev[k].position = p

\* C2 (diff correctness and event ordering): when onewire_cb has raised its
\* events, they are the changes from the bitmap the central stored when the
\* falling edge came to the bitmap it took as received, ascending, and none
\* iff the two are equal.
C2_DiffOfStored ==
    rx_pc = "rearm" =>
        /\ IsDiffOf(events, rx_hist.old, rx_hist.data)
        /\ (events = <<>>) = (rx_hist.old = rx_hist.data)

\* onewire_read_byte returns 0 or 1, so onewire_cb never takes the branch
\* for data_length >= sizeof(position_state)
TooLongNeverTaken ==
    /\ ~rx_hist.toolong
    /\ data_length \in {0, 1}

\* C4 (out-of-range rejection): a call with position >= 128 drives nothing
\* on the line, changes nothing in or beyond the bitmap and returns an error.
C4_OutOfRangeRejected ==
    (call.made /\ ~InRange(call.position)) =>
        /\ tx_log = <<>>
        /\ tx_frames = 0
        /\ periph_state = call.before
        /\ periph_oob = call.oob_before
        /\ (tx_pc = "return" => periph_ret < 0)

\* C5 (retransmission without batching): every call with position < 128
\* has sent one whole frame when it returns, also when the bit already had
\* the requested value, in which case the bitmap is the one it started from.
C5_OneFramePerCall ==
    (tx_pc = "return" /\ InRange(call.position)) =>
        /\ tx_frames = 1
        /\ tx_i = POSITION_STATE_DATA_LEN
        /\ Len(tx_log) = SizeofByte * (2 + POSITION_STATE_DATA_LEN)
        /\ ((PositionBit(call.before, call.position) = 1) = call.set
               => periph_state = call.before)

\* a pressed(p) that found bit p already set has returned after its frame
C5_Witness ==
    /\ tx_pc = "return"
    /\ InRange(call.position)
    /\ call.set
    /\ PositionBit(call.before, call.position) = 1
    /\ tx_frames = 1

\* C6 (single-bit update): during and after a call with position p < 128,
\* bit p%8 of byte p/8 has the requested value and every other bit of the
\* bitmap has the value it had before the call.
C6_SingleBit ==
    (call.made /\ InRange(call.position)) =>
        \A q \in AllPositions :
            PositionBit(periph_state, q) =
                IF q = call.position
                  THEN (IF call.set THEN 1 ELSE 0)
                  ELSE PositionBit(call.before, q)

\* pressed(3) changed bit 3 of byte 0 while bit 0 of the same byte was set
C6_Witness ==
    /\ call.made
    /\ call.position = 3
    /\ call.set
    /\ PositionBit(call.before, 3) = 0
    /\ PositionBit(call.before, 0) = 1
    /\ PositionBit(periph_state, 3) = 1

\* the line values of a frame as the protocol describes it: one low start
\* bit, then the framing symbol, the length and the payload bytes, eight bits
\* each, least significant bit first
FrameBits(bm) ==
    [k \in 1 .. (1 + 8 * (2 + POSITION_STATE_DATA_LEN)) |->
        IF k = 1 THEN 0
        ELSE LET n == (k - 2) \div 8
                 j == (k - 2) % 8
             IN BitOf(IF n = 0 THEN FRAMING_SYMBOL
                      ELSE IF n = 1 THEN POSITION_STATE_DATA_LEN
                      ELSE bm[n - 2], j)]

\* C7 (transmit sequence): a call has driven, one period each, the low start
\* bit, the framing symbol, the length 16 and the 16 payload bytes, and left
\* the line high; the line is high whenever no call is running.
C7_TransmitSequence ==
    /\ tx_pc = "return" => (tx_log = FrameBits(periph_state) /\ line = 1)
    /\ tx_pc = "idle" => line = 1

\* C8 (interrupt masking): while onewire_cb runs, up to and including its
\* event emission, the falling-edge interrupt is disabled and none is
\* pending, so at most one onewire_cb is running.
C8_Masked ==
    /\ rx_depth <= 1
    /\ (rx_depth = 1) = (rx_pc # "idle")
    /\ rx_pc # "idle" => (~irq_enabled /\ ~irq_pending)

\* the line fell while onewire_cb was decoding
C8_Witness == rx_pc # "idle" /\ rx_hist.edges = 1

\* C9 (receiver returns to Idle): a running onewire_cb takes at most one
\* length byte and 15 payload bytes of samples, and always comes back to
\* idle with the falling-edge interrupt enabled.
C9_ReturnsToIdle ==
    /\ [](Len(rx_hist.samples) <= SizeofByte * POSITION_STATE_DATA_LEN)
    /\ ((rx_pc # "idle") ~> (rx_pc = "idle" /\ irq_enabled))

\* a decode in which a read failed has reached its last statement
C9_Witness == rx_pc = "rearm" /\ rx_hist.errs > 0

\* a failed read was the last sample taken
FailedRead ==
    /\ Len(rx_hist'.samples) = Len(rx_hist.samples) + 1
    /\ rx_hist'.samples[Len(rx_hist'.samples)] < 0

\* C10 (invalid sample recovery): a failed read leaves the byte as it was,
\* with a 0 at the bit being read, and onewire_read_byte goes on to its wait
\* and the next sample; a decode with a failed read still takes every sample
\* its length calls for and reaches the diff.
C10_ReadErrorRecovered ==
    /\ [][FailedRead =>
            /\ rx_byte' = rx_byte
            /\ BitOf(rx_byte', rx_bit) = 0
            /\ rx_timer' = ONE_PERIOD_US
            /\ rx_pc' \in {"length", "payload", "got_length", "got_payload"}]_vars
    /\ []((rx_pc \in {"diff", "emit", "rearm"} /\ rx_hist.errs > 0)
            => Len(rx_hist.samples) = SizeofByte * (1 + data_length))

\* the read of the payload byte failed after the length was read as 1, and
\* the decode went on to its diff
C10_Witness ==
    /\ rx_pc = "diff"
    /\ data_length = 1
    /\ Len(rx_hist.samples) = 2
    /\ rx_hist.samples[2] < 0
    /\ central_state[0] = 0

\* C11 (canonical bitmap after an accepted frame): when onewire_cb has
\* diffed a frame of valid length, the central's bitmap is the bitmap it
\* took as received, and receiving the bitmap it already stored raises no
\* event.
C11_CanonicalIsReceived ==
    (rx_pc = "rearm" /\ ~rx_hist.toolong) =>
        /\ central_state = rx_hist.data
        /\ (rx_hist.old = rx_hist.data => events = <<>>)

\* C14 (receive decode order): onewire_cb has read the start symbol byte,
\* then the length byte, then exactly length payload bytes when it reaches
\* the diff; the length it tested is the second byte it read.
C14_DecodeOrder ==
    (rx_pc \in {"diff", "emit", "rearm"} /\ ~rx_hist.toolong) =>
        /\ Len(rx_hist.bytes) >= 2
        /\ data_length = rx_hist.bytes[2]
        /\ Len(rx_hist.bytes) = 2 + data_length

\* C15 (receive buffer separate from the canonical bitmap): from the falling
\* edge until the diff starts, the central's bitmap is the one it stored
\* before the edge.
C15_BufferSeparate ==
    rx_pc \in {"length", "got_length", "payload", "got_payload", "diff"}
        => central_state = rx_hist.old

\* C16 (mid-bit sampling): in the decode that the first falling edge of a
\* frame starts, the k-th sample is taken while the k-th line value of the
\* frame is on the line, half a period after it was driven.
C16_MidBit ==
    (call.made /\ call.decodes = 1) =>
        \A k \in 1 .. Len(rx_hist.at) :
            /\ rx_hist.at[k].bit = k
            /\ 0 < rx_hist.at[k].phase
            /\ rx_hist.at[k].phase < ONE_PERIOD_US
            /\ 2 * rx_hist.at[k].phase = ONE_PERIOD_US

\* every sample of that decode is taken half a period after a line value was
\* driven, and the k-th sample meets the (k+2)-th line value of the frame
SamplesMeetLaterBits ==
    (call.made /\ call.decodes = 1) =>
        \A k \in 1 .. Len(rx_hist.at) :
            /\ rx_hist.at[k].bit = k + 2
            /\ 2 * rx_hist.at[k].phase = ONE_PERIOD_US

\* C17 (blocking frame duration): when a call returns its frame is complete
\* and it has busy-waited 1 + 8 x 18 = 145 bit periods.
C17_FrameDuration ==
    tx_pc = "return" =>
        /\ tx_frames = 1
        /\ clock = (1 + 8 * (2 + POSITION_STATE_DATA_LEN)) * ONE_PERIOD_US

\* C19 (length compatibility): the length the peripheral sends with a frame
\* passes the test onewire_cb applies to a length, and no decode takes the
\* too-long branch.
C19_LengthCompatible ==
    /\ TxWaiting => LengthAccepted(tx_length)
    /\ ~rx_hist.toolong

\* C20 (one frame, one decode): a call has started exactly one run of
\* onewire_cb when it returns, and once that run has started the
\* falling-edge interrupt stays disabled for as long as the call is sending.
C20_OneDecodePerFrame ==
    /\ tx_pc = "return" => call.decodes = 1
    /\ (call.made /\ call.decodes >= 1 /\ TxWaiting) => ~irq_enabled

C13_ByteCodec ==
    cd_pc = "done" =>
        /\ Len(cd_wire) = 8
        /\ \A i \in 0 .. 7 : cd_wire[i + 1] = BitOf(cd_b, i)
        /\ cd_rx = cd_b

\* the samples after those of the first byte are the same in both frames
DifferOnlyInFirstByte(a, b) ==
    \A n \in 1 .. FrameSamples : n > SizeofByte => a[n] = b[n]

\* C18 (start symbol not validated): two frames that differ only in their
\* first byte make onewire_cb raise the same events and leave the same
\* bitmap.
C18_FirstByteIgnored ==
    (pr_a.done /\ pr_b.done /\ DifferOnlyInFirstByte(pr_in.a, pr_in.b))
        => pr_a = pr_b

====
